---- MODULE Spec2Model ----
(***************************************************************************)
(* A model of memos_client.py: the JSON configuration file written by      *)
(* save_config and read by load_config, and the window lifecycle driven by *)
(* MemosClient, LauncherWindow and SettingsWindow.                         *)
(*                                                                         *)
(* JSON values.  null is the record Null, a string is Str(s) with s a      *)
(* sequence of characters, a geometry dict is a function from a subset of  *)
(* {"x","y","width","height"} to integers, a boolean is a BOOLEAN.         *)
(* A QRect is a record tagged t = "QRect".                                 *)
(***************************************************************************)
EXTENDS Integers, Sequences, FiniteSets, TLC

VARIABLES
    file,             \* content of CONFIG_FILE
    app,              \* "off": no process; "exec": event loop running;
                      \* "quit": app.quit() was called and the loop has returned
    timer,            \* <<>> or <<[url, window]>>: the pending QTimer.singleShot
    view,             \* <<>> or <<[url, geometry, visible]>>: self.view
    launcher,         \* <<>> or <<[visible]>>: self.launcher
    settings_window,  \* <<>> or <<[visible, checked]>>: self.settings_window
    warning,          \* the last handler showed QMessageBox.warning
    writing,          \* <<>> or <<args>>: a save_config between open() and close
    result,           \* the value the last load_config call returned
    last              \* the last handler that ran, with its inputs

vars == <<file, app, timer, view, launcher, settings_window, warning,
          writing, result, last>>

----------------------------------------------------------------------------
(* Bounds of the model *)

MaxHostLen == 2

----------------------------------------------------------------------------
(* JSON values and file contents *)

Null == [t |-> "null"]

Str(s) == [t |-> "str", s |-> s]

IsNone(v) == "t" \in DOMAIN v /\ v.t = "null"

QRect(x, y, w, h) == [t |-> "QRect", x |-> x, y |-> y, width |-> w, height |-> h]

IsDict(v) == "t" \notin DOMAIN v

Keys == {"memos_url", "window", "close_to_tray"}

\* CONFIG_FILE.exists() is false
Missing == [kind |-> "missing"]

\* text json.load rejects: "empty" is a file of zero bytes
Text(what) == [kind |-> "text", text |-> what]

\* a JSON number, true, false or null
Scalar == [kind |-> "scalar"]

\* a JSON array; each item is a tuple
Array(items) == [kind |-> "array", items |-> items]

\* a JSON object with the given fields
Object(fields) == [kind |-> "object", fields |-> fields]

----------------------------------------------------------------------------
(* save_config and load_config *)

\* the default of save_config's close_to_tray parameter
DefaultCloseToTray == FALSE

ToDict(window_geo) ==
    IF IsDict(window_geo)
    THEN window_geo
    ELSE [x |-> window_geo.x, y |-> window_geo.y,
          width |-> window_geo.width, height |-> window_geo.height]

Data(url, window_geo, close_to_tray) ==
    IF ~IsNone(window_geo)
    THEN [memos_url |-> url, close_to_tray |-> close_to_tray,
          window |-> ToDict(window_geo)]
    ELSE [memos_url |-> url, close_to_tray |-> close_to_tray]

\* a faulty variant of save_config: the close_to_tray argument is not written
save_config_IgnoresTray(url, window_geo, close_to_tray) ==
    Object(Data(url, window_geo, DefaultCloseToTray))

\* the file after a save_config call that ran to its end
save_config(url, window_geo, close_to_tray) ==
    Object(Data(url, window_geo, close_to_tray))

default_config == [memos_url |-> Null, window |-> Null, close_to_tray |-> FALSE]

Pick(d, data, k) == IF k \in DOMAIN data THEN data[k] ELSE d[k]

\* dict.update(d, data) for a dict data
UpdateDict(d, data) ==
    [memos_url |-> Pick(d, data, "memos_url"),
     window |-> Pick(d, data, "window"),
     close_to_tray |-> Pick(d, data, "close_to_tray")]

\* dict.update(d, items) for a list: the pairs are stored one by one, and the
\* first item that is not a pair raises, leaving the earlier pairs stored
RECURSIVE UpdateSeq(_, _)
UpdateSeq(d, items) ==
    IF items = <<>> THEN d
    ELSE IF Len(Head(items)) # 2 THEN d
    ELSE UpdateSeq([d EXCEPT ![Head(items)[1]] = Head(items)[2]], Tail(items))

load_config(f) ==
    IF f.kind = "object" THEN UpdateDict(default_config, f.fields)
    ELSE IF f.kind = "array" THEN UpdateSeq(default_config, f.items)
    ELSE default_config

----------------------------------------------------------------------------
(* Inputs *)

\* proto_combo's items
Protos == { <<"h","t","t","p",":","/","/">>, <<"h","t","t","p","s",":","/","/">> }

Chars == {" ", "a"}

\* what the user can have typed into host_input
Texts == UNION { [1..n -> Chars] : n \in 0..MaxHostLen }

\* the rectangles the user or the window manager gives the Content window
UserRects == { QRect(50, 60, 800, 650), QRect(-20, 0, 1200, 900) }

\* QSystemTrayIcon.ActivationReason
Reasons == {"Trigger", "DoubleClick", "Context", "MiddleClick"}

StoredUrl == Str(<<"h","t","t","p",":","/","/","a">>)

\* the contents CONFIG_FILE can have when the program first runs
InitFiles ==
    { Missing,
      Text("corrupt"),
      Scalar,
      Array(<< <<"memos_url", StoredUrl>>, <<"bad">> >>),
      Object([memos_url |-> Str(<<>>),
              window |-> [x |-> 700, y |-> -8, width |-> 300, height |-> 900]]),
      Object([memos_url |-> StoredUrl,
              window |-> [x |-> -5, y |-> -5, width |-> 10, height |-> 10],
              close_to_tray |-> TRUE]),
      Object([memos_url |-> StoredUrl, window |-> [x |-> 30, width |-> 640]]) }

----------------------------------------------------------------------------
(* Helpers of the handlers *)

IsSpace(c) == c = " "

\* str.strip(): leading and trailing whitespace removed
RECURSIVE lstrip(_)
lstrip(s) == IF s # <<>> /\ IsSpace(Head(s)) THEN lstrip(Tail(s)) ELSE s

RECURSIVE rstrip(_)
rstrip(s) ==
    IF s # <<>> /\ IsSpace(s[Len(s)]) THEN rstrip(SubSeq(s, 1, Len(s) - 1)) ELSE s

\* a faulty variant of strip: trailing whitespace is kept
strip_LeftOnly(s) == lstrip(s)

\* a faulty variant of strip: nothing is removed
strip_Nothing(s) == s

strip(s) == rstrip(lstrip(s))

Max(a, b) == IF a >= b THEN a ELSE b

\* dict.get(k, dflt)
Get(d, k, dflt) == IF k \in DOMAIN d THEN d[k] ELSE dflt

\* the truth value of window_state: None and the empty dict are false
TruthyState(window_state) == ~IsNone(window_state) /\ DOMAIN window_state # {}

\* the truth value of config["memos_url"]: None and "" are false
TruthyUrl(u) == ~IsNone(u) /\ u.s # <<>>

\* a faulty variant of Geometry: the least width and height are not enforced
Geometry_NoMinSize(window_state) ==
    IF TruthyState(window_state)
    THEN QRect(Max(0, Get(window_state, "x", 100)),
               Max(0, Get(window_state, "y", 100)),
               Get(window_state, "width", 1000),
               Get(window_state, "height", 700))
    ELSE QRect(0, 0, 1000, 700)

\* the geometry show_memo_window gives the new view
Geometry(window_state) ==
    IF TruthyState(window_state)
    THEN QRect(Max(0, Get(window_state, "x", 100)),
               Max(0, Get(window_state, "y", 100)),
               Max(600, Get(window_state, "width", 1000)),
               Max(400, Get(window_state, "height", 700)))
    ELSE QRect(0, 0, 1000, 700)

\* self.view after show_memo_window(url, window_state)
show_memo_window(url, window_state) ==
    [url |-> url, geometry |-> Geometry(window_state), visible |-> TRUE]

\* a faulty variant of Resolve: the stored geometry is not passed on
Resolve_NoWindow(config) ==
    IF TruthyUrl(config.memos_url)
    THEN << [url |-> config.memos_url, window |-> Null] >>
    ELSE <<>>

\* the startup decision: <<>> shows the Launcher, <<[url, window]>> schedules
\* show_memo_window(url, window)
Resolve(config) ==
    IF TruthyUrl(config.memos_url)
    THEN << [url |-> config.memos_url, window |-> config.window] >>
    ELSE <<>>

\* the entries of a handler's log of accesses to CONFIG_FILE: a load_config
\* of the file f, a save_config that left the file f, an unlink
DidRead(f) == [op |-> "read", cfg |-> load_config(f)]

DidWrite(f) == [op |-> "write", cfg |-> load_config(f)]

DidUnlink == [op |-> "unlink", cfg |-> default_config]

\* a faulty variant of on_close: the stored close_to_tray is not consulted
on_close_AlwaysQuit(f, v) ==
    [view |-> v,
     quit |-> TRUE,
     file |-> save_config(v.url, v.geometry, DefaultCloseToTray),
     io |-> << DidWrite(save_config(v.url, v.geometry, DefaultCloseToTray)) >>]

\* the closeEvent of the view v when the file is f: the view, whether
\* app.quit() was called, the file afterwards, and the accesses to the file
on_close(f, v) ==
    LET config == load_config(f) IN
    [view |-> IF config.close_to_tray THEN [v EXCEPT !.visible = FALSE] ELSE v,
     quit |-> ~config.close_to_tray,
     file |-> save_config(v.url, v.geometry, DefaultCloseToTray),
     io |-> << DidRead(f),
               DidWrite(save_config(v.url, v.geometry, DefaultCloseToTray)) >>]

\* the handler that ran, its inputs, and its accesses to CONFIG_FILE in order
RanIO(op, arg, io) == [op |-> op, arg |-> arg, io |-> io]

Ran(op, arg) == RanIO(op, arg, <<>>)

----------------------------------------------------------------------------
(* The window lifecycle: one action per handler *)

Init ==
    /\ file \in InitFiles
    /\ app = "off"
    /\ timer = <<>>
    /\ view = <<>>
    /\ launcher = <<>>
    /\ settings_window = <<>>
    /\ warning = FALSE
    /\ writing = <<>>
    /\ result = default_config
    /\ last = Ran("none", <<>>)

Visible(w) == w # <<>> /\ w[1].visible

Hidden(w) == << [w[1] EXCEPT !.visible = FALSE] >>

Shown(w) == << [w[1] EXCEPT !.visible = TRUE] >>

\* MemosClient.__init__ in a new process: the decision on the stored URL
MemosClientInit ==
    /\ app # "exec"
    /\ LET config == load_config(file) IN
        /\ timer' = Resolve(config)
        /\ launcher' = IF Resolve(config) = <<>> THEN << [visible |-> TRUE] >> ELSE <<>>
    /\ view' = <<>>
    /\ settings_window' = <<>>
    /\ app' = "exec"
    /\ warning' = FALSE
    /\ last' = RanIO("__init__", <<>>, << DidRead(file) >>)
    /\ UNCHANGED <<file, writing, result>>

\* the QTimer.singleShot(0, ...) of __init__ fires
TimerShot ==
    /\ app = "exec"
    /\ timer # <<>>
    /\ view' = << show_memo_window(timer[1].url, timer[1].window) >>
    /\ timer' = <<>>
    /\ warning' = FALSE
    /\ last' = Ran("singleShot", <<>>)
    /\ UNCHANGED <<file, app, launcher, settings_window, writing, result>>

\* a faulty variant of handle_connect: the Launcher is not closed
handle_connect_KeepsLauncher(proto, text) ==
    /\ app = "exec"
    /\ launcher # <<>> /\ launcher[1].visible
    /\ LET host == strip(text) IN
        IF host = <<>>
        THEN /\ warning' = TRUE
             /\ UNCHANGED <<file, view, launcher>>
        ELSE LET url == Str(proto \o host)
                 config == load_config(file)
             IN /\ file' = save_config(url, Null, config.close_to_tray)
                /\ view' = << show_memo_window(url, Null) >>
                /\ launcher' = launcher
                /\ warning' = FALSE
    /\ last' = Ran("handle_connect", <<proto, text>>)
    /\ UNCHANGED <<app, timer, settings_window, writing, result>>

\* LauncherWindow.handle_connect with proto chosen and text typed
handle_connect(proto, text) ==
    /\ app = "exec"
    /\ Visible(launcher)
    /\ LET host == strip(text) IN
        IF host = <<>>
        THEN /\ warning' = TRUE
             /\ UNCHANGED <<file, view, launcher>>
        ELSE LET url == Str(proto \o host)
                 config == load_config(file)
             IN /\ file' = save_config(url, Null, config.close_to_tray)
                /\ view' = << show_memo_window(url, Null) >>
                /\ launcher' = Hidden(launcher)
                /\ warning' = FALSE
    /\ last' = RanIO("handle_connect", <<proto, text>>,
                      IF strip(text) = <<>> THEN <<>>
                      ELSE << DidRead(file), DidWrite(file') >>)
    /\ UNCHANGED <<app, timer, settings_window, writing, result>>

\* the user or the window system asks the Content window to close
closeEvent ==
    /\ app = "exec"
    /\ Visible(view)
    /\ LET r == on_close(file, view[1]) IN
        /\ view' = << r.view >>
        /\ app' = IF r.quit THEN "quit" ELSE "exec"
        /\ file' = r.file
        /\ last' = RanIO("on_close", <<>>, r.io)
    /\ warning' = FALSE
    /\ UNCHANGED <<timer, launcher, settings_window, writing, result>>

\* SettingsWindow.reset_url; the view's close() runs on_close on the file
\* as the unlink left it
reset_url ==
    /\ app = "exec"
    /\ Visible(settings_window)
    /\ IF view # <<>>
       THEN LET r == on_close(Missing, view[1]) IN
            /\ file' = r.file
            /\ app' = IF r.quit THEN "quit" ELSE "exec"
            /\ last' = RanIO("reset_url", <<>>,
                              (IF file # Missing THEN << DidUnlink >> ELSE <<>>) \o r.io)
       ELSE /\ file' = Missing
            /\ app' = app
            /\ last' = RanIO("reset_url", <<>>,
                              IF file # Missing THEN << DidUnlink >> ELSE <<>>)
    /\ view' = <<>>
    /\ launcher' = << [visible |-> TRUE] >>
    /\ settings_window' = Hidden(settings_window)
    /\ warning' = FALSE
    /\ UNCHANGED <<timer, writing, result>>

\* Qt.CheckState.Checked, the value on_checkbox_changed compares state with
Checked == 2

CheckState(checked) == IF checked THEN 2 ELSE 0

\* a faulty variant of on_checkbox_changed: window_geo is not passed to save_config
on_checkbox_changed_DropsWindow ==
    /\ app = "exec"
    /\ settings_window # <<>> /\ settings_window[1].visible
    /\ LET state == CheckState(~settings_window[1].checked)
           close_to_tray == (state = Checked)
           config == load_config(file)
       IN /\ file' = save_config(config.memos_url, Null, close_to_tray)
          /\ settings_window' =
                << [settings_window[1] EXCEPT !.checked = ~settings_window[1].checked] >>
    /\ warning' = FALSE
    /\ last' = Ran("on_checkbox_changed", <<>>)
    /\ UNCHANGED <<app, timer, view, launcher, writing, result>>

\* the user clicks the checkbox: stateChanged carries the new state
on_checkbox_changed ==
    /\ app = "exec"
    /\ Visible(settings_window)
    /\ LET state == CheckState(~settings_window[1].checked)
           close_to_tray == (state = Checked)
           config == load_config(file)
       IN /\ file' = save_config(config.memos_url, config.window, close_to_tray)
          /\ settings_window' =
                << [settings_window[1] EXCEPT !.checked = ~settings_window[1].checked] >>
    /\ warning' = FALSE
    /\ last' = RanIO("on_checkbox_changed", <<>>, << DidRead(file), DidWrite(file') >>)
    /\ UNCHANGED <<app, timer, view, launcher, writing, result>>

\* a faulty variant of on_tray_activated: a hidden window is not shown again
on_tray_activated_NoShow(reason) ==
    /\ app = "exec"
    /\ UNCHANGED <<view, launcher>>
    /\ warning' = FALSE
    /\ last' = Ran("on_tray_activated",
                    <<reason, IF view # <<>> /\ view[1].visible THEN "visible"
                              ELSE IF view # <<>> THEN "hidden" ELSE "none">>)
    /\ UNCHANGED <<file, app, timer, settings_window, writing, result>>

\* MemosClient.on_tray_activated
on_tray_activated(reason) ==
    /\ app = "exec"
    /\ IF reason \in {"Trigger", "DoubleClick"}
       THEN IF view # <<>>
            THEN view' = Shown(view) /\ launcher' = launcher
            ELSE IF launcher # <<>>
                 THEN launcher' = Shown(launcher) /\ view' = view
                 ELSE UNCHANGED <<view, launcher>>
       ELSE UNCHANGED <<view, launcher>>
    /\ warning' = FALSE
    /\ last' = Ran("on_tray_activated",
                    <<reason, IF Visible(view) THEN "visible"
                              ELSE IF view # <<>> THEN "hidden" ELSE "none">>)
    /\ UNCHANGED <<file, app, timer, settings_window, writing, result>>

\* a faulty variant of show_settings: a new SettingsWindow on every request
show_settings_AlwaysNew ==
    /\ app = "exec"
    /\ timer = <<>>
    /\ settings_window' =
          << [visible |-> TRUE, checked |-> load_config(file).close_to_tray] >>
    /\ warning' = FALSE
    /\ last' = RanIO("show_settings", <<>>, << DidRead(file) >>)
    /\ UNCHANGED <<file, app, timer, view, launcher, writing, result>>

\* MemosClient.show_settings, from the tray menu.  The menu opens and its
\* item is chosen in later turns of the event loop than the first one, in
\* which the singleShot(0) of __init__ fires.
show_settings ==
    /\ app = "exec"
    /\ timer = <<>>
    /\ settings_window' =
          IF settings_window = <<>> \/ ~settings_window[1].visible
          THEN << [visible |-> TRUE, checked |-> load_config(file).close_to_tray] >>
          ELSE Shown(settings_window)
    /\ warning' = FALSE
    /\ last' = RanIO("show_settings", <<>>,
                      IF settings_window = <<>> \/ ~settings_window[1].visible
                      THEN << DidRead(file) >> ELSE <<>>)
    /\ UNCHANGED <<file, app, timer, view, launcher, writing, result>>

\* a faulty variant of quit_action: with close_to_tray stored, the Content
\* window is hidden instead
quit_action_HidesToTray ==
    /\ app = "exec"
    /\ timer = <<>>
    /\ IF view # <<>> /\ load_config(file).close_to_tray
       THEN view' = << [view[1] EXCEPT !.visible = FALSE] >> /\ app' = app
       ELSE view' = view /\ app' = "quit"
    /\ warning' = FALSE
    /\ last' = Ran("quit", <<>>)
    /\ UNCHANGED <<file, timer, launcher, settings_window, writing, result>>

\* the tray menu's quit action: app.quit
quit_action ==
    /\ app = "exec"
    /\ timer = <<>>
    /\ app' = "quit"
    /\ warning' = FALSE
    /\ last' = Ran("quit", <<>>)
    /\ UNCHANGED <<file, timer, view, launcher, settings_window, writing, result>>

\* the user moves or resizes the Content window
MoveResize(rect) ==
    /\ app = "exec"
    /\ Visible(view)
    /\ view[1].geometry # rect
    /\ view' = << [view[1] EXCEPT !.geometry = rect] >>
    /\ warning' = FALSE
    /\ last' = Ran("move", <<>>)
    /\ UNCHANGED <<file, app, timer, launcher, settings_window, writing, result>>

\* the user closes the Launcher: QWidget's closeEvent accepts, the window hides
LauncherClose ==
    /\ app = "exec"
    /\ Visible(launcher)
    /\ launcher' = Hidden(launcher)
    /\ warning' = FALSE
    /\ last' = Ran("launcher_close", <<>>)
    /\ UNCHANGED <<file, app, timer, view, settings_window, writing, result>>

\* the user closes the Settings window: it hides
SettingsClose ==
    /\ app = "exec"
    /\ Visible(settings_window)
    /\ settings_window' = Hidden(settings_window)
    /\ warning' = FALSE
    /\ last' = Ran("settings_close", <<>>)
    /\ UNCHANGED <<file, app, timer, view, launcher, writing, result>>

Connect == \E proto \in Protos, text \in Texts : handle_connect(proto, text)

TrayActivated == \E reason \in Reasons : on_tray_activated(reason)

Move == \E rect \in UserRects : MoveResize(rect)

Next ==
    \/ MemosClientInit
    \/ TimerShot
    \/ Connect
    \/ closeEvent
    \/ reset_url
    \/ on_checkbox_changed
    \/ TrayActivated
    \/ show_settings
    \/ quit_action
    \/ Move
    \/ LauncherClose
    \/ SettingsClose

Spec == Init /\ [][Next]_vars

----------------------------------------------------------------------------
(* The configuration store alone: save_config step by step, load_config,    *)
(* and a process that can stop between the open() and the end of the write *)

\* the arguments save_config is called with
ArgUrls == {Null, Str(<<>>), StoredUrl}

ArgWindows ==
    { Null,
      [x |-> -5, y |-> -5, width |-> 10, height |-> 10],
      [x |-> 40, y |-> 50, width |-> 800, height |-> 650],
      QRect(50, 60, 800, 650) }

\* save_config up to open(CONFIG_FILE, "w"): the file is truncated
SaveOpen(url, window_geo, close_to_tray) ==
    /\ writing = <<>>
    /\ writing' = << [url |-> url, window_geo |-> window_geo,
                      close_to_tray |-> close_to_tray] >>
    /\ file' = Text("empty")
    /\ last' = Ran("open", writing')
    /\ UNCHANGED <<app, timer, view, launcher, settings_window, warning, result>>

\* json.dump and the end of the with block: the record is in the file
SaveDump ==
    /\ writing # <<>>
    /\ file' = save_config(writing[1].url, writing[1].window_geo,
                           writing[1].close_to_tray)
    /\ writing' = <<>>
    /\ last' = Ran("dump", writing)
    /\ UNCHANGED <<app, timer, view, launcher, settings_window, warning, result>>

\* the process stops (is killed, the machine loses power) inside the with block
Kill ==
    /\ writing # <<>>
    /\ writing' = <<>>
    /\ last' = Ran("kill", <<>>)
    /\ UNCHANGED <<file, app, timer, view, launcher, settings_window, warning, result>>

\* load_config; last.arg keeps the arguments of a save_config that ended just before
Load ==
    /\ writing = <<>>
    /\ result' = load_config(file)
    /\ last' = Ran("load_config", IF last.op = "dump" THEN last.arg ELSE <<>>)
    /\ UNCHANGED <<file, app, timer, view, launcher, settings_window, warning, writing>>

Save ==
    \E url \in ArgUrls, window_geo \in ArgWindows, close_to_tray \in BOOLEAN :
        SaveOpen(url, window_geo, close_to_tray)

StoreNext ==
    \/ Save
    \/ SaveDump
    \/ Kill
    \/ Load

StoreSpec == Init /\ [][StoreNext]_vars

----------------------------------------------------------------------------
(* Properties *)

Stored == load_config(file)

\* C1: every close request on the Content window, with the stored
\* close_to_tray true, leaves the window existing, hidden, on the same URL,
\* and app.quit() uncalled; with the stored flag false, app.quit() is called.
\* The close request reset_url makes finds no file, so the flag false.
C1_CloseToTray ==
    [][ /\ last'.op = "on_close" =>
              IF Stored.close_to_tray
              THEN /\ view' # <<>>
                   /\ ~view'[1].visible
                   /\ view'[1].url = view[1].url
                   /\ app' = "exec"
              ELSE app' = "quit"
        /\ (last'.op = "reset_url" /\ view # <<>>) => app' = "quit" ]_vars

C1_Witness ==
    /\ last.op = "on_close"
    /\ view # <<>>
    /\ ~view[1].visible
    /\ app = "exec"

\* C2: a close request on the Content window leaves the stored close_to_tray
\* as it was before the close.
C2_CloseKeepsTrayFlag ==
    [][ last'.op = "on_close" =>
            load_config(file').close_to_tray = Stored.close_to_tray ]_vars

\* C3: Reset URL with a URL stored and a Content window existing leaves the
\* stored memos_url null, so that the next start shows the Launcher.
C3_ResetYieldsUnconfigured ==
    [][ (last'.op = "reset_url" /\ view # <<>> /\ TruthyUrl(Stored.memos_url)) =>
            /\ IsNone(load_config(file').memos_url)
            /\ Resolve(load_config(file')) = <<>> ]_vars

\* C4: toggling the tray preference stores the new close_to_tray and leaves
\* the stored memos_url and window as they read before the toggle.
C4_TogglePreservesUrlAndWindow ==
    [][ last'.op = "on_checkbox_changed" =>
            /\ load_config(file').memos_url = Stored.memos_url
            /\ load_config(file').window = Stored.window
            /\ load_config(file').close_to_tray = ~settings_window[1].checked ]_vars

C4_Witness ==
    /\ last.op = "on_checkbox_changed"
    /\ TruthyUrl(Stored.memos_url)
    /\ ~IsNone(Stored.window)
    /\ Stored.close_to_tray

\* C5: load_config returns the all-defaults record whenever the file is
\* missing or its content is not a JSON object.
C5_DefaultsOnUnparsable ==
    (last.op = "load_config" /\ file.kind # "object") => result = default_config

\* what load_config is to return after save_config(args)
Written(args) ==
    [memos_url |-> args.url,
     window |-> IF IsNone(args.window_geo) \/ IsDict(args.window_geo)
                THEN args.window_geo
                ELSE [x |-> args.window_geo.x, y |-> args.window_geo.y,
                      width |-> args.window_geo.width,
                      height |-> args.window_geo.height],
     close_to_tray |-> args.close_to_tray]

\* C6: load_config right after save_config(url, window_geo, close_to_tray)
\* returns memos_url = url, window = window_geo and close_to_tray as given.
C6_RoundTrip ==
    (last.op = "load_config" /\ last.arg # <<>>) => result = Written(last.arg[1])

C6_Witness ==
    /\ last.op = "load_config"
    /\ last.arg # <<>>
    /\ TruthyUrl(result.memos_url)
    /\ ~IsNone(result.window)
    /\ result.close_to_tray

\* C7: at startup a stored memos_url that is null or empty shows the Launcher
\* and schedules nothing; any other stored string schedules the Content
\* window with that string and the stored window, and the Content window
\* then opens on that string with the geometry made from that window.
C7_StartupRouting ==
    [][ /\ last'.op = "__init__" =>
              IF IsNone(Stored.memos_url) \/ Stored.memos_url.s = <<>>
              THEN /\ launcher' = << [visible |-> TRUE] >>
                   /\ timer' = <<>>
                   /\ view' = <<>>
              ELSE /\ launcher' = <<>>
                   /\ view' = <<>>
                   /\ timer' = << [url |-> Stored.memos_url,
                                   window |-> Stored.window] >>
        /\ last'.op = "singleShot" =>
              /\ view' # <<>>
              /\ view'[1].visible
              /\ view'[1].url = timer[1].url
              /\ view'[1].geometry = Geometry(timer[1].window) ]_vars

C7_Witness ==
    /\ last.op = "singleShot"
    /\ view # <<>>
    /\ view[1].url = StoredUrl
    /\ view[1].geometry = QRect(0, 0, 600, 400)

\* C8: every step of a save_config leaves the file either as it was or
\* holding the complete new record.
C8_AtomicWrite ==
    [][ last'.op \in {"open", "dump", "kill"} =>
            \/ file' = file
            \/ /\ last'.arg # <<>>
               /\ file' = Object(Data(last'.arg[1].url, last'.arg[1].window_geo,
                                      last'.arg[1].close_to_tray)) ]_vars

Spaces(n) == [i \in 1..n |-> " "]

Blank(text) == \A i \in 1..Len(text) : text[i] = " "

\* text without its leading and trailing spaces
Trimmed(text) ==
    CHOOSE h \in Texts :
        /\ \E m, n \in 0..Len(text) : text = Spaces(m) \o h \o Spaces(n)
        /\ h = <<>> \/ (h[1] # " " /\ h[Len(h)] # " ")

\* C9: a Launcher submit with scheme s and a host that is not blank stores
\* memos_url = s followed by the trimmed host, leaves the stored close_to_tray
\* as it was, shows the Content window on that URL and hides the Launcher;
\* a start on the stored record then schedules the Content window on that URL.
C9_SubmitStoresUrl ==
    [][ (last'.op = "handle_connect" /\ ~Blank(last'.arg[2])) =>
            LET url == Str(last'.arg[1] \o Trimmed(last'.arg[2])) IN
            /\ load_config(file').memos_url = url
            /\ load_config(file').close_to_tray = Stored.close_to_tray
            /\ view' # <<>> /\ view'[1].visible /\ view'[1].url = url
            /\ launcher' # <<>> /\ ~launcher'[1].visible
            /\ Resolve(load_config(file')) # <<>>
            /\ Resolve(load_config(file'))[1].url = url ]_vars

C9_Witness ==
    /\ last.op = "handle_connect"
    /\ last.arg[2] = <<"a", " ">>
    /\ view # <<>>
    /\ view[1].url = Str(last.arg[1] \o <<"a">>)
    /\ Stored.close_to_tray

\* C10: a Launcher submit whose host is empty or blank shows the prompt and
\* changes neither the file nor any window, and the Launcher stays visible.
C10_BlankHostRejected ==
    [][ (last'.op = "handle_connect" /\ Blank(last'.arg[2])) =>
            /\ warning'
            /\ launcher' # <<>> /\ launcher'[1].visible
            /\ UNCHANGED <<file, app, timer, view, launcher, settings_window>> ]_vars

C10_Witness ==
    /\ last.op = "handle_connect"
    /\ last.arg[2] = <<" ">>
    /\ warning
    /\ file.kind = "object"

\* the larger of a and b, said without comparing them in a fixed order
AtLeast(a, b) == CHOOSE m \in {a, b} : m >= a /\ m >= b

FullDict(w) == ~IsNone(w) /\ DOMAIN w = {"x", "y", "width", "height"}

\* C11: a Content window opened on a stored geometry {x, y, width, height}
\* gets x' = max(0, x), y' = max(0, y), width' = max(600, width) and
\* height' = max(400, height).
C11_GeometryClamped ==
    [][ (last'.op = "singleShot" /\ FullDict(timer[1].window)) =>
            LET w == timer[1].window
                g == view'[1].geometry
            IN /\ g.x = AtLeast(0, w.x)
               /\ g.y = AtLeast(0, w.y)
               /\ g.width = AtLeast(600, w.width)
               /\ g.height = AtLeast(400, w.height) ]_vars

C11_Witness ==
    /\ last.op = "singleShot"
    /\ FullDict(Stored.window)
    /\ Stored.window.x = -20
    /\ view # <<>>
    /\ view[1].geometry = QRect(0, 0, 1200, 900)

\* C12: a close request on the Content window, the one reset_url makes
\* after its unlink included, leaves the stored memos_url as it was
\* immediately before the close request.
C12_CloseKeepsUrl ==
    [][ /\ last'.op = "on_close" =>
              load_config(file').memos_url = Stored.memos_url
        /\ (last'.op = "reset_url" /\ view # <<>>) =>
              load_config(file').memos_url = load_config(Missing).memos_url ]_vars

\* C13: Reset URL with a Content window existing leaves no Content window,
\* a visible Launcher, the all-defaults stored record, and app.quit() uncalled.
C13_ResetShowsLauncher ==
    [][ (last'.op = "reset_url" /\ view # <<>>) =>
            /\ view' = <<>>
            /\ launcher' # <<>> /\ launcher'[1].visible
            /\ load_config(file') = default_config
            /\ app' = "exec" ]_vars

C15_SubmitKeepsWindow ==
    [][ (last'.op = "handle_connect" /\ ~Blank(last'.arg[2])
             /\ ~IsNone(Stored.window)) =>
            load_config(file').window = Stored.window ]_vars

\* C16: the Launcher and the Content window are never visible together.
C16_NotBothVisible ==
    ~( /\ launcher # <<>> /\ launcher[1].visible
       /\ view # <<>> /\ view[1].visible )

C16_Witness ==
    /\ last.op = "handle_connect"
    /\ view # <<>> /\ view[1].visible
    /\ launcher # <<>> /\ ~launcher[1].visible

\* C17: a tray activation by single or double click makes an existing
\* Content window visible, hidden by a close to the tray or not; with no
\* Content window it makes an existing Launcher visible; with neither it
\* changes nothing.  It never touches the file or ends the process.
C17_TrayActivationRestores ==
    [][ (last'.op = "on_tray_activated"
             /\ last'.arg[1] \in {"Trigger", "DoubleClick"}) =>
            /\ IF view # <<>>
               THEN /\ view' = << [view[1] EXCEPT !.visible = TRUE] >>
                    /\ launcher' = launcher
               ELSE IF launcher # <<>>
               THEN /\ launcher' = << [visible |-> TRUE] >>
                    /\ view' = <<>>
               ELSE view' = <<>> /\ launcher' = <<>>
            /\ UNCHANGED <<file, app, timer, settings_window>> ]_vars

C17_Witness ==
    /\ last.op = "on_tray_activated"
    /\ last.arg = <<"DoubleClick", "hidden">>
    /\ view # <<>>
    /\ view[1].visible

Named(op) ==
    IF op = "handle_connect" THEN {"memos_url"}
    ELSE IF op = "on_checkbox_changed" THEN {"close_to_tray"}
    ELSE IF op \in {"on_close", "reset_url"} THEN {"window"}
    ELSE {}

\* C19: every save_config of a handler comes right after a load_config of the
\* same handler, with no other write or unlink between them, and each field
\* it writes is set from the handled event, or is that read's value, or is
\* the parameter's default: none is a value read before that read.
C19_WriteFromSameRead ==
    \A i \in 1..Len(last.io) :
        last.io[i].op = "write" =>
            /\ i > 1
            /\ last.io[i - 1].op = "read"
            /\ \A k \in Keys :
                  \/ k \in Named(last.op)
                  \/ last.io[i].cfg[k] = last.io[i - 1].cfg[k]
                  \/ last.io[i].cfg[k] = default_config[k]

\* C20: a request for Settings while a Settings window is visible keeps that
\* instance as it is; otherwise a new instance is made from the stored
\* close_to_tray and shown.
C20_SettingsSingleInstance ==
    [][ last'.op = "show_settings" =>
            IF settings_window # <<>> /\ settings_window[1].visible
            THEN settings_window' = settings_window
            ELSE settings_window' =
                    << [visible |-> TRUE, checked |-> Stored.close_to_tray] >> ]_vars

C20_Witness ==
    /\ last.op = "show_settings"
    /\ settings_window # <<>>
    /\ settings_window[1].visible
    /\ settings_window[1].checked # Stored.close_to_tray

====
